---- MODULE Spec2Model ----
(***************************************************************************)
(* Arbitrage detection backend: the analyzer (services/arbitrage_service), *)
(* the opportunity request handlers (api/v1/opportunities) with their      *)
(* request schemas (schemas/opportunity), and the opportunity rows         *)
(* (models/arbitrage_opportunity).                                         *)
(*                                                                         *)
(* Money is held in cents (DECIMAL(10,2) columns), time in hours.          *)
(* Python's Optional[T] is a sequence of length at most one: None is <<>>  *)
(* and a value v is <<v>>.                                                 *)
(* A Decimal quotient is kept as the exact fraction [num, den]: Python's   *)
(* Decimal context rounds to 28 significant digits, and every comparison   *)
(* the code makes (against 25, 30, 50, 100, 200) is between fractions      *)
(* whose denominator is a price of at most 10 digits, so rounding at the   *)
(* 28th digit cannot change its result.                                    *)
(***************************************************************************)
EXTENDS Integers, Sequences, FiniteSets, TLC

VARIABLES
    now,              \* wall clock (datetime.utcnow / func.now), in hours
    price_history,    \* rows of table price_history
    product_singles,  \* rows of table product_singles
    opportunities,    \* rows of table arbitrage_opportunities, by id
    last              \* the last operation: its arguments and its outcome

vars == <<now, price_history, product_singles, opportunities, last>>

-----------------------------------------------------------------------------
(* Bounds of the model *)

MaxClock == 48
MaxObs == 3
MaxOpps == 1

(* Program constants *)

MIN_MARGIN_THRESHOLD == 25
FeeRatePercent == 15
ExpiryHours == 24
MinQuantity == 1
MaxQuantity == 100
MaxNotesLength == 500

-----------------------------------------------------------------------------
(* Optional values *)

None == <<>>
Some(v) == <<v>>
IsNone(o) == o = <<>>
Val(o) == o[1]

TickSteps == {24}

SealedProducts == {"box"}
SingleProducts == {"s1", "s2"}
Products == SealedProducts \cup SingleProducts

(* Prices in cents offered to the price store, per product. *)
PricesOf(p) ==
    IF p \in SealedProducts THEN {680, 1000}
    ELSE IF p = "s1" THEN {500, 550, 1000}
    ELSE {500}

SellerCountsOf(p) == IF p \in SealedProducts THEN {None, Some(3)} ELSE {None}

RecordTimes == {0, 24}

(* The compositions a sealed product is given at start-up: no edge at all, *)
(* one single twice, two singles.  (sealed, single) is unique per row.     *)
Edge(s, q) == [sealed_product_id |-> "box", single_product_id |-> s, quantity |-> q]
Compositions == { {}, {Edge("s1", 2)}, {Edge("s1", 2), Edge("s2", 1)} }

-----------------------------------------------------------------------------
Max(a, b) == IF a >= b THEN a ELSE b

-----------------------------------------------------------------------------
(* PriceResolver *)

RowsOf(product_id) == { r \in price_history : r.product_id = product_id }

MaxRecordedAt(product_id) ==
    CHOOSE t \in { r.recorded_at : r \in RowsOf(product_id) } :
        \A r \in RowsOf(product_id) : r.recorded_at <= t

(* order_by(recorded_at.desc()).first(): the rows that can come first.     *)
(* Rows that share the greatest recorded_at are in no defined order, so    *)
(* each of them is a possible first row.                                   *)
FirstRows(product_id) ==
    { r \in RowsOf(product_id) : r.recorded_at = MaxRecordedAt(product_id) }

(* The prices _get_latest_price_with_db can return. *)
get_latest_price_with_db(product_id) ==
    IF RowsOf(product_id) = {} THEN {None}
    ELSE { Some(r.price) : r \in FirstRows(product_id) }

(* Without an injected session the method enters                           *)
(* "async with get_db_session()", and get_db_session is a synchronous      *)
(* @contextmanager: the statement raises, the except clause logs and       *)
(* returns None.                                                           *)
get_latest_price(product_id, has_db) ==
    IF has_db THEN get_latest_price_with_db(product_id) ELSE {None}

-----------------------------------------------------------------------------
(* SinglesValuator *)

\* the valuator giving up as soon as one component single has no price row
SinglesData_all_or_nothing(sealed_product_id) ==
    IF \E e \in product_singles :
          /\ e.sealed_product_id = sealed_product_id
          /\ RowsOf(e.single_product_id) = {}
    THEN {}
    ELSE { j \in [edge : product_singles, row : price_history] :
             /\ j.edge.sealed_product_id = sealed_product_id
             /\ j.row.product_id = j.edge.single_product_id
             /\ j.row.recorded_at = MaxRecordedAt(j.edge.single_product_id) }

(* The joined rows (ProductSingle.quantity, PriceHistory.price): every     *)
(* price row of an edge's single whose recorded_at equals the greatest     *)
(* recorded_at of that single.                                             *)
SinglesData(sealed_product_id) ==
    { j \in [edge : product_singles, row : price_history] :
        /\ j.edge.sealed_product_id = sealed_product_id
        /\ j.row.product_id = j.edge.single_product_id
        /\ j.row.recorded_at = MaxRecordedAt(j.edge.single_product_id) }

\* total_value += Decimal(str(quantity)) * Decimal(str(price)), row by row
RECURSIVE TotalValue(_)
TotalValue(rows) ==
    IF rows = {} THEN 0
    ELSE LET j == CHOOSE x \in rows : TRUE
         IN  j.edge.quantity * j.row.price + TotalValue(rows \ {j})

calculate_singles_value_with_db(sealed_product_id) ==
    IF SinglesData(sealed_product_id) = {} THEN None
    ELSE Some(TotalValue(SinglesData(sealed_product_id)))

calculate_singles_value(sealed_product_id, has_db) ==
    IF has_db THEN calculate_singles_value_with_db(sealed_product_id) ELSE None

-----------------------------------------------------------------------------
(* ConfidenceScorer and RiskClassifier.  Scores are in hundredths, weights *)
(* in tenths, volatility in percent.                                       *)

get_seller_count(product_id) == 8
get_price_volatility(product_id) == 15
get_volume_consistency(product_id) == 75

WeightPriceStability == 3
WeightSellerCount == 2
WeightVolumeHistory == 2
WeightMarginSize == 3

\* margin > k, margin >= k, margin < k for a fraction margin and an integer k
FracGt(m, k) == m.num > k * m.den
FracGe(m, k) == m.num >= k * m.den
FracLt(m, k) == m.num < k * m.den

\* the factor without its floor at 0
PriceStabilityScore_unclamped(volatility) == 100 - 2 * volatility

\* max(0, 1 - (price_volatility / 50))
PriceStabilityScore(volatility) == Max(0, 100 - 2 * volatility)

SellerCountScore(seller_count) ==
    IF seller_count <= 5 THEN 90
    ELSE IF seller_count <= 10 THEN 70
    ELSE 30

MarginSizeScore(margin_percentage) ==
    IF FracGt(margin_percentage, 200) THEN 50
    ELSE IF FracGt(margin_percentage, 100) THEN 80
    ELSE IF FracGt(margin_percentage, 50) THEN 100
    ELSE 70

\* round(total_score, 2) of a total held in thousandths
Round2(thousandths) ==
    LET q == thousandths \div 10
        r == thousandths % 10
    IN  IF r > 5 \/ (r = 5 /\ q % 2 = 1) THEN q + 1 ELSE q

\* The body of _calculate_confidence over the values its three lookups
\* gave: the four scores, their weighted sum, round(total_score, 2).
\* Nothing clips the sum.
ConfidenceScore(price_volatility, seller_count, volume_consistency, margin_percentage) ==
    Round2( PriceStabilityScore(price_volatility) * WeightPriceStability
          + SellerCountScore(seller_count) * WeightSellerCount
          + volume_consistency * WeightVolumeHistory
          + MarginSizeScore(margin_percentage) * WeightMarginSize )

calculate_confidence(product_id, margin_percentage) ==
    ConfidenceScore(get_price_volatility(product_id), get_seller_count(product_id),
                    get_volume_consistency(product_id), margin_percentage)

\* both margin bounds written as ">"
assess_risk_level_strict(margin_percentage, confidence_score) ==
    IF confidence_score >= 80 /\ FracGt(margin_percentage, 50) THEN "low"
    ELSE IF confidence_score >= 60 /\ FracGt(margin_percentage, 30) THEN "medium"
    ELSE "high"

assess_risk_level(margin_percentage, confidence_score) ==
    IF confidence_score >= 80 /\ FracGe(margin_percentage, 50) THEN "low"
    ELSE IF confidence_score >= 60 /\ FracGe(margin_percentage, 30) THEN "medium"
    ELSE "high"

-----------------------------------------------------------------------------
(* OpportunityAnalyzer *)

\* singles_value * (1 - fee_rate), in hundredths of a cent
NetSinglesValue(singles_value) == singles_value * (100 - FeeRatePercent)

\* ((net_singles_value - sealed_price) / sealed_price) * 100
MarginPercentage(sealed_price, singles_value) ==
    [num |-> NetSinglesValue(singles_value) - 100 * sealed_price, den |-> sealed_price]

\* "<" written as "<="
BelowThreshold_inclusive(margin_percentage) ==
    ~FracGt(margin_percentage, MIN_MARGIN_THRESHOLD)

\* the comparison of line 69 turned round
BelowThreshold_inverted(margin_percentage) ==
    FracGt(margin_percentage, MIN_MARGIN_THRESHOLD)

BelowThreshold(margin_percentage) == FracLt(margin_percentage, MIN_MARGIN_THRESHOLD)

\* the opportunity built with the net singles value in place of the gross one
NewOpportunity_net(sealed_product_id, sealed_price, singles_value, margin_percentage) ==
    LET confidence_score == calculate_confidence(sealed_product_id, margin_percentage)
    IN  [ sealed_product_id |-> sealed_product_id,
          sealed_price      |-> sealed_price,
          singles_value     |-> NetSinglesValue(singles_value) \div 100,
          margin_percentage |-> margin_percentage,
          confidence_score  |-> confidence_score,
          risk_level        |-> assess_risk_level(margin_percentage, confidence_score),
          seller_count      |-> Some(get_seller_count(sealed_product_id)),
          status            |-> "active",
          expires_at        |-> Some(now + ExpiryHours) ]

\* the opportunity built with another status literal
NewOpportunity_pending(sealed_product_id, sealed_price, singles_value, margin_percentage) ==
    LET confidence_score == calculate_confidence(sealed_product_id, margin_percentage)
    IN  [ sealed_product_id |-> sealed_product_id,
          sealed_price      |-> sealed_price,
          singles_value     |-> singles_value,
          margin_percentage |-> margin_percentage,
          confidence_score  |-> confidence_score,
          risk_level        |-> assess_risk_level(margin_percentage, confidence_score),
          seller_count      |-> Some(get_seller_count(sealed_product_id)),
          status            |-> "pending",
          expires_at        |-> Some(now + ExpiryHours) ]

NewOpportunity(sealed_product_id, sealed_price, singles_value, margin_percentage) ==
    LET confidence_score == calculate_confidence(sealed_product_id, margin_percentage)
    IN  [ sealed_product_id |-> sealed_product_id,
          sealed_price      |-> sealed_price,
          singles_value     |-> singles_value,
          margin_percentage |-> margin_percentage,
          confidence_score  |-> confidence_score,
          risk_level        |-> assess_risk_level(margin_percentage, confidence_score),
          seller_count      |-> Some(get_seller_count(sealed_product_id)),
          status            |-> "active",
          expires_at        |-> Some(now + ExpiryHours) ]

\* the analyzer declining a product that already has an active opportunity
AnalysisResult_deduplicating(sealed_product_id, sealed_price, singles_value) ==
    IF \E id \in DOMAIN opportunities :
          /\ opportunities[id].sealed_product_id = sealed_product_id
          /\ opportunities[id].status = "active"
    THEN None
    ELSE IF IsNone(sealed_price) \/ Val(sealed_price) = 0 THEN None
    ELSE IF IsNone(singles_value) \/ Val(singles_value) = 0 THEN None
    ELSE LET margin_percentage == MarginPercentage(Val(sealed_price), Val(singles_value))
         IN  IF BelowThreshold(margin_percentage) THEN None
             ELSE Some(NewOpportunity(sealed_product_id, Val(sealed_price),
                                      Val(singles_value), margin_percentage))

(* What analyze_sealed_product returns once the two lookups have answered: *)
(* None, or the new opportunity.  A price or a value of 0 is falsy and     *)
(* ends the analysis like a missing one.                                   *)
AnalysisResult(sealed_product_id, sealed_price, singles_value) ==
    IF IsNone(sealed_price) \/ Val(sealed_price) = 0 THEN None
    ELSE IF IsNone(singles_value) \/ Val(singles_value) = 0 THEN None
    ELSE LET margin_percentage == MarginPercentage(Val(sealed_price), Val(singles_value))
         IN  IF BelowThreshold(margin_percentage) THEN None
             ELSE Some(NewOpportunity(sealed_product_id, Val(sealed_price),
                                      Val(singles_value), margin_percentage))

(* The runs of analyze_sealed_product a caller can get for one sealed       *)
(* product: what the two lookups answered, and what is returned.  The      *)
(* singles value is looked up only once a sealed price was found.          *)
Analyses(sealed_product_id, has_db) ==
    { LET singles_value == IF IsNone(sealed_price) THEN None
                           ELSE calculate_singles_value(sealed_product_id, has_db)
      IN  [ sealed_price  |-> sealed_price,
            singles_value |-> singles_value,
            result        |-> AnalysisResult(sealed_product_id, sealed_price, singles_value) ] :
        sealed_price \in get_latest_price(sealed_product_id, has_db) }

-----------------------------------------------------------------------------
(* Actions *)

NoOp == [op |-> "none"]

Tick ==
    /\ \E d \in TickSteps :
        /\ now + d <= MaxClock
        /\ now' = now + d
    /\ last' = [op |-> "tick"]
    /\ UNCHANGED <<price_history, product_singles, opportunities>>

(* The scraping collaborator appends a price observation. *)
RecordPrice ==
    /\ Cardinality(price_history) < MaxObs
    /\ \E p \in Products :
       \E price \in PricesOf(p) :
       \E t \in RecordTimes :
       \E sc \in SellerCountsOf(p) :
          price_history' = price_history \cup
              { [product_id |-> p, price |-> price, recorded_at |-> t, seller_count |-> sc] }
    /\ last' = [op |-> "record_price"]
    /\ UNCHANGED <<now, product_singles, opportunities>>

(* ArbitrageAnalyzer(db).analyze_sealed_product(sealed_product) *)
analyze_sealed_product ==
    /\ \E p \in SealedProducts :
       \E has_db \in BOOLEAN :
       \E run \in Analyses(p, has_db) :
          last' = [op |-> "analyze", sealed_product_id |-> p, has_db |-> has_db,
                   at |-> now, sealed_price |-> run.sealed_price,
                   singles_value |-> run.singles_value, result |-> run.result]
    /\ UNCHANGED <<now, price_history, product_singles, opportunities>>

(* _get_latest_price_with_db(db, product_id), called twice over the same   *)
(* rows: each call runs the query anew.                                    *)
ResolvePrice ==
    /\ \E p \in Products :
       \E first \in get_latest_price_with_db(p) :
       \E second \in get_latest_price_with_db(p) :
          last' = [op |-> "get_latest_price", product_id |-> p,
                   first |-> first, second |-> second]
    /\ UNCHANGED <<now, price_history, product_singles, opportunities>>

(* _calculate_singles_value_with_db(db, sealed_product_id) *)
ValueSingles ==
    /\ \E p \in SealedProducts :
          last' = [op |-> "calculate_singles_value", sealed_product_id |-> p,
                   result |-> calculate_singles_value_with_db(p)]
    /\ UNCHANGED <<now, price_history, product_singles, opportunities>>

-----------------------------------------------------------------------------
(* The analyzer on its own, over every price store within the bounds. *)

InitAnalyzer ==
    /\ now = 0
    /\ price_history = {}
    /\ product_singles \in Compositions
    /\ opportunities = <<>>
    /\ last = NoOp

NextAnalyzer ==
    \/ Tick
    \/ RecordPrice
    \/ analyze_sealed_product
    \/ ResolvePrice
    \/ ValueSingles

SpecAnalyzer == InitAnalyzer /\ [][NextAnalyzer]_vars

-----------------------------------------------------------------------------
(* The scorer and the classifier on their own, over factor values, margins *)
(* and confidences around every threshold of theirs.                       *)

Percent(hundredths) == [num |-> hundredths, den |-> 100]

MarginInputs ==
    { Percent(h) : h \in {0 - 650, 2500, 2999, 3000, 4999, 5000, 5001,
                          10000, 10001, 20000, 20001} }
ConfidenceInputs == {0, 21, 59, 60, 79, 80, 81, 98, 100}
VolatilityInputs == {0, 15, 25, 50, 200}
SellerCountInputs == {0, 5, 6, 10, 11}
VolumeConsistencyInputs == {0, 75, 100}

\* _calculate_confidence with its lookups answering the drawn values
ScoreConfidence ==
    /\ \E price_volatility \in VolatilityInputs :
       \E seller_count \in SellerCountInputs :
       \E volume_consistency \in VolumeConsistencyInputs :
       \E margin_percentage \in MarginInputs :
          last' = [op |-> "calculate_confidence",
                   price_volatility |-> price_volatility,
                   seller_count |-> seller_count,
                   volume_consistency |-> volume_consistency,
                   margin_percentage |-> margin_percentage,
                   result |-> ConfidenceScore(price_volatility, seller_count,
                                              volume_consistency, margin_percentage)]
    /\ UNCHANGED <<now, price_history, product_singles, opportunities>>

\* _assess_risk_level(margin_percentage, confidence_score)
AssessRisk ==
    /\ \E margin_percentage \in MarginInputs :
       \E confidence_score \in ConfidenceInputs :
          last' = [op |-> "assess_risk_level",
                   margin_percentage |-> margin_percentage,
                   confidence_score |-> confidence_score,
                   result |-> assess_risk_level(margin_percentage, confidence_score)]
    /\ UNCHANGED <<now, price_history, product_singles, opportunities>>

InitScoring ==
    /\ now = 0
    /\ price_history = {}
    /\ product_singles = {}
    /\ opportunities = <<>>
    /\ last = NoOp

NextScoring ==
    \/ ScoreConfidence
    \/ AssessRisk

SpecScoring == InitScoring /\ [][NextScoring]_vars

-----------------------------------------------------------------------------
(* Request schemas (schemas/opportunity.py) *)

Statuses == {"active", "expired", "executed", "cancelled"}

\* A note longer than String(500) / max_length=500 is stood for by this one.
LongNotes == "a note of 501 characters"
NotesLength(notes) == IF notes = LongNotes THEN MaxNotesLength + 1 ELSE 20

\* Field(None, max_length=500)
NotesValid(notes) == IsNone(notes) \/ NotesLength(Val(notes)) <= MaxNotesLength

\* le=100 written as lt=100
OpportunityExecutionValid_lt(quantity, notes) ==
    /\ quantity >= MinQuantity
    /\ quantity < MaxQuantity
    /\ NotesValid(notes)

\* OpportunityExecution: quantity ge=1, le=100; notes max_length=500
OpportunityExecutionValid(quantity, notes) ==
    /\ quantity >= MinQuantity
    /\ quantity <= MaxQuantity
    /\ NotesValid(notes)

\* the list of line 53 without 'cancelled', as in the column comment of the model
validate_status_three(v) ==
    ~(~IsNone(v) /\ Val(v) # "" /\ Val(v) \notin {"active", "expired", "executed"})

\* ArbitrageOpportunityUpdate.validate_status: "if v and v not in [...]: raise".
\* None and the empty string are falsy and are returned as they came.
validate_status(v) ==
    ~(~IsNone(v) /\ Val(v) # "" /\ Val(v) \notin Statuses)

\* the schema with margin_percentage declared as a fourth field
ArbitrageOpportunityUpdateFields_margin ==
    {"status", "execution_quantity", "execution_notes", "margin_percentage"}

\* the schema with expires_at declared as a fourth field
ArbitrageOpportunityUpdateFields_expires ==
    {"status", "execution_quantity", "execution_notes", "expires_at"}

\* The fields ArbitrageOpportunityUpdate declares.  The model has no Config,
\* so a key of the body that is not a declared field is ignored.
ArbitrageOpportunityUpdateFields ==
    {"status", "execution_quantity", "execution_notes"}

\* ArbitrageOpportunityUpdate(**body): the declared fields of the body
ParsedUpdate(body) ==
    [f \in DOMAIN body \cap ArbitrageOpportunityUpdateFields |-> body[f]]

\* ArbitrageOpportunityUpdate: status validated, execution_quantity ge=0,
\* execution_notes max_length=500
ArbitrageOpportunityUpdateValid(status, execution_quantity, execution_notes) ==
    /\ validate_status(status)
    /\ (IsNone(execution_quantity) \/ Val(execution_quantity) >= 0)
    /\ NotesValid(execution_notes)

-----------------------------------------------------------------------------
(* Opportunity rows (models/arbitrage_opportunity.py) *)

OpportunityIds == 1..MaxOpps
Exists(id) == id \in DOMAIN opportunities

\* The row the store makes of an analyzer's opportunity: column defaults
\* execution_quantity = 0, created_at = updated_at = now(), the rest NULL.
NewRow(o) ==
    o @@ [ execution_quantity |-> 0,
           execution_notes    |-> None,
           created_at         |-> now,
           updated_at         |-> now,
           executed_at        |-> None ]

\* updated_at written on every call, changed row or not
Flush_always(old, new) == [new EXCEPT !.updated_at = now]

\* updated_at has onupdate=func.now(): it is set when an UPDATE is issued,
\* and the unit of work issues none for a row whose columns did not change.
Flush(old, new) ==
    IF new = old THEN old ELSE [new EXCEPT !.updated_at = now]

-----------------------------------------------------------------------------
(* OpportunityLifecycle: the operations of OpportunityService *)

\* the operation without its own range check
ExecuteFailures_unchecked(row, quantity) ==
    IF row.status # "active" THEN {"InvalidState"} ELSE {}

\* the operation refusing only rows that were executed before
ExecuteFailures_executed_only(row, quantity) ==
    (IF row.status = "executed" THEN {"InvalidState"} ELSE {})
    \cup (IF quantity < MinQuantity \/ quantity > MaxQuantity
          THEN {"InvalidArgument"} ELSE {})

\* execute(quantity, notes): what the operation can answer for this row.
\* When the row is not active and the quantity is out of range as well,
\* either failure can be the one reported.
ExecuteFailures(row, quantity) ==
    (IF row.status # "active" THEN {"InvalidState"} ELSE {})
    \cup (IF quantity < MinQuantity \/ quantity > MaxQuantity
          THEN {"InvalidArgument"} ELSE {})

\* execute leaving executed_at as it is
Executed_unstamped(row, quantity, notes) ==
    Flush(row, [row EXCEPT !.status = "executed",
                           !.execution_quantity = quantity,
                           !.execution_notes = notes])

Executed(row, quantity, notes) ==
    Flush(row, [row EXCEPT !.status = "executed",
                           !.execution_quantity = quantity,
                           !.execution_notes = notes,
                           !.executed_at = Some(now)])

\* The columns that hold an Optional themselves.
NullableColumns == {"execution_notes", "expires_at", "executed_at", "seller_count"}

\* update(status?, execution_quantity?, execution_notes?): every supplied
\* field of the validated request replaces the row's.
Updated(row, update) ==
    Flush(row,
          [f \in DOMAIN row |->
             IF f \in DOMAIN update /\ ~IsNone(update[f])
             THEN IF f \in NullableColumns THEN update[f] ELSE Val(update[f])
             ELSE row[f]])

\* cancel(): the row stays, its status becomes cancelled
Cancelled(row) == Flush(row, [row EXCEPT !.status = "cancelled"])

\* ArbitrageOpportunity.is_active: the stored status, nothing else
is_active(row) == row.status = "active"

\* expire(): an active row whose expires_at has come becomes expired
IsDue(row) ==
    row.status = "active" /\ ~IsNone(row.expires_at) /\ now >= Val(row.expires_at)

Expired(row) == IF IsDue(row) THEN Flush(row, [row EXCEPT !.status = "expired"]) ELSE row

-----------------------------------------------------------------------------
(* Inputs of the lifecycle operations *)

ExecuteQuantities == {0, 1, 100, 101}
NotesInputs == {None, Some("bought two cases")}
RequestNotesInputs == NotesInputs \cup {Some(LongNotes)}
StatusInputs ==
    {None} \cup { Some(v) : v \in Statuses \cup {"", "deleted"} }
UpdateQuantities == {None, Some(0 - 1), Some(2)}

\* What a body can carry besides the declared fields: nothing, or the keys
\* margin_percentage and expires_at.
ExtraInputs ==
    { <<>>,
      [margin_percentage |-> Some([num |-> 9900, den |-> 100]),
       expires_at        |-> Some(0)] }

\* The extra keys come with bodies that set no execution field.
ExtrasWith(execution_quantity, execution_notes) ==
    IF IsNone(execution_quantity) /\ IsNone(execution_notes)
    THEN ExtraInputs ELSE { <<>> }

-----------------------------------------------------------------------------
(* Lifecycle actions *)

\* create(): an analysis whose result is an opportunity adds it as a new row
create ==
    /\ Len(opportunities) < MaxOpps
    /\ \E p \in SealedProducts :
       \E has_db \in BOOLEAN :
       \E run \in Analyses(p, has_db) :
          /\ opportunities' =
                IF IsNone(run.result) THEN opportunities
                ELSE Append(opportunities, NewRow(Val(run.result)))
          /\ last' = [op |-> "create", sealed_product_id |-> p, has_db |-> has_db,
                      at |-> now, result |-> run.result]
    /\ UNCHANGED <<now, price_history, product_singles>>

\* The row an operation found, None when there is none with that id.
Found(id) == IF Exists(id) THEN Some(opportunities[id]) ELSE None

\* OpportunityService.execute_opportunity(opportunity_id, quantity, notes),
\* called on its own
execute ==
    /\ \E id \in OpportunityIds :
       \E quantity \in ExecuteQuantities :
       \E notes \in NotesInputs :
          LET request == [op |-> "execute", id |-> id, quantity |-> quantity,
                          notes |-> notes, before |-> Found(id)]
          IN  IF ~Exists(id)
              THEN /\ last' = request @@ [result |-> "NotFound"]
                   /\ UNCHANGED opportunities
              ELSE IF ExecuteFailures(opportunities[id], quantity) # {}
              THEN /\ \E failure \in ExecuteFailures(opportunities[id], quantity) :
                        last' = request @@ [result |-> failure]
                   /\ UNCHANGED opportunities
              ELSE /\ last' = request @@ [result |-> "ok"]
                   /\ opportunities' =
                         [opportunities EXCEPT ![id] = Executed(@, quantity, notes)]
    /\ UNCHANGED <<now, price_history, product_singles>>

\* POST /{opportunity_id}/execute: the body is validated as an
\* OpportunityExecution, then the service is called
execute_opportunity ==
    /\ \E id \in OpportunityIds :
       \E quantity \in ExecuteQuantities :
       \E notes \in RequestNotesInputs :
          LET request == [op |-> "execute_opportunity", id |-> id,
                          quantity |-> quantity, notes |-> notes,
                          before |-> Found(id)]
          IN  IF ~OpportunityExecutionValid(quantity, notes)
              THEN /\ last' = request @@ [result |-> "InvalidArgument"]
                   /\ UNCHANGED opportunities
              ELSE IF ~Exists(id)
              THEN /\ last' = request @@ [result |-> "NotFound"]
                   /\ UNCHANGED opportunities
              ELSE IF ExecuteFailures(opportunities[id], quantity) # {}
              THEN /\ \E failure \in ExecuteFailures(opportunities[id], quantity) :
                        last' = request @@ [result |-> failure]
                   /\ UNCHANGED opportunities
              ELSE /\ last' = request @@ [result |-> "ok"]
                   /\ opportunities' =
                         [opportunities EXCEPT ![id] = Executed(@, quantity, notes)]
    /\ UNCHANGED <<now, price_history, product_singles>>

\* PUT /{opportunity_id}: the body is validated as an
\* ArbitrageOpportunityUpdate, then the service applies it
update_opportunity ==
    /\ \E id \in OpportunityIds :
       \E status \in StatusInputs :
       \E execution_quantity \in UpdateQuantities :
       \E execution_notes \in NotesInputs :
       \E extra \in ExtrasWith(execution_quantity, execution_notes) :
          LET body == [status |-> status,
                       execution_quantity |-> execution_quantity,
                       execution_notes |-> execution_notes] @@ extra
              request == [op |-> "update_opportunity", id |-> id, status |-> status,
                          execution_quantity |-> execution_quantity,
                          execution_notes |-> execution_notes,
                          extra |-> extra,
                          before |-> Found(id)]
          IN  IF ~ArbitrageOpportunityUpdateValid(status, execution_quantity,
                                                  execution_notes)
              THEN /\ last' = request @@ [result |-> "InvalidArgument"]
                   /\ UNCHANGED opportunities
              ELSE IF ~Exists(id)
              THEN /\ last' = request @@ [result |-> "NotFound"]
                   /\ UNCHANGED opportunities
              ELSE /\ last' = request @@ [result |-> "ok"]
                   /\ opportunities' =
                         [opportunities EXCEPT
                            ![id] = Updated(@, ParsedUpdate(body))]
    /\ UNCHANGED <<now, price_history, product_singles>>

\* DELETE /{opportunity_id}: "sets status to cancelled"
delete_opportunity ==
    /\ \E id \in OpportunityIds :
          LET request == [op |-> "delete_opportunity", id |-> id, before |-> Found(id)]
          IN  IF ~Exists(id)
              THEN /\ last' = request @@ [result |-> "NotFound"]
                   /\ UNCHANGED opportunities
              ELSE /\ last' = request @@ [result |-> "ok"]
                   /\ opportunities' = [opportunities EXCEPT ![id] = Cancelled(@)]
    /\ UNCHANGED <<now, price_history, product_singles>>

\* A read of ArbitrageOpportunity.is_active on a stored row, as the response
\* schema makes for its is_active field.
ReadIsActive ==
    /\ \E id \in DOMAIN opportunities :
          last' = [op |-> "is_active", id |-> id, at |-> now,
                   result |-> is_active(opportunities[id])]
    /\ UNCHANGED <<now, price_history, product_singles, opportunities>>

\* the periodic task cleanup_expired_opportunities
cleanup_expired_opportunities ==
    /\ opportunities' = [id \in DOMAIN opportunities |-> Expired(opportunities[id])]
    /\ last' = [op |-> "cleanup_expired_opportunities", before |-> opportunities]
    /\ UNCHANGED <<now, price_history, product_singles>>

-----------------------------------------------------------------------------
(* The opportunity engine over a price store that holds a sealed product   *)
(* at 10.00 with singles worth 15.00.                                      *)

Observation(p, price, t) ==
    [product_id |-> p, price |-> price, recorded_at |-> t, seller_count |-> None]

Init ==
    /\ now = 0
    /\ price_history =
          {Observation("box", 1000, 0), Observation("s1", 500, 0), Observation("s2", 500, 0)}
    /\ product_singles = {Edge("s1", 2), Edge("s2", 1)}
    /\ opportunities = <<>>
    /\ last = NoOp

Next ==
    \/ Tick
    \/ create
    \/ execute
    \/ execute_opportunity
    \/ update_opportunity
    \/ delete_opportunity
    \/ ReadIsActive
    \/ cleanup_expired_opportunities

Spec == Init /\ [][Next]_vars

-----------------------------------------------------------------------------
(* OpportunityQuery: the filters schema (schemas/opportunity.py) and the    *)
(* query of OpportunityService behind GET /                                *)

RiskLevels == {"low", "medium", "high"}

\* OpportunityFilters.validate_max_risk: "if v and v not in [...]: raise"
validate_max_risk(v) ==
    ~(~IsNone(v) /\ Val(v) # "" /\ Val(v) \notin RiskLevels)

\* the list of the update schema, which has no 'all'
validate_filter_status_four(v) == v \in Statuses

\* OpportunityFilters.validate_status
validate_filter_status(v) == v \in Statuses \cup {"all"}

\* the three fields the docstring of get_opportunities names
validate_sort_by_three(v) ==
    v \in {"margin_percentage", "confidence_score", "created_at"}

\* OpportunityFilters.validate_sort_by
validate_sort_by(v) ==
    v \in {"margin_percentage", "confidence_score", "created_at", "expires_at",
           "sealed_price"}

\* OpportunityFilters.validate_sort_order
validate_sort_order(v) == v \in {"asc", "desc"}

OpportunityFiltersValid(filters) ==
    /\ validate_max_risk(filters.max_risk)
    /\ validate_filter_status(filters.status)
    /\ validate_sort_by(filters.sort_by)
    /\ validate_sort_order(filters.sort_order)

\* low < medium < high
RiskRank(risk_level) ==
    IF risk_level = "low" THEN 1 ELSE IF risk_level = "medium" THEN 2 ELSE 3

\* the row passes every supplied filter
Matches(row, filters) ==
    /\ filters.status = "all" \/ row.status = filters.status
    /\ IsNone(filters.max_risk)
          \/ RiskRank(row.risk_level) <= RiskRank(Val(filters.max_risk))
    /\ IsNone(filters.min_margin)
          \/ FracGe(row.margin_percentage, Val(filters.min_margin))

\* row a is below row b on the sort field
KeyLess(sort_by, a, b) ==
    IF sort_by = "margin_percentage"
    THEN a.margin_percentage.num * b.margin_percentage.den
            < b.margin_percentage.num * a.margin_percentage.den
    ELSE IF sort_by = "expires_at"
    THEN Val(a.expires_at) < Val(b.expires_at)
    ELSE a[sort_by] < b[sort_by]

\* id i comes before id j: by the sort field in the sort order, then by id
Precedes(filters, i, j) ==
    LET a == opportunities[i]
        b == opportunities[j]
    IN  IF KeyLess(filters.sort_by, a, b) THEN filters.sort_order = "asc"
        ELSE IF KeyLess(filters.sort_by, b, a) THEN filters.sort_order = "desc"
        ELSE i < j

RECURSIVE SortedIds(_, _)
SortedIds(ids, filters) ==
    IF ids = {} THEN <<>>
    ELSE LET first == CHOOSE i \in ids : \A j \in ids \ {i} : Precedes(filters, i, j)
         IN  <<first>> \o SortedIds(ids \ {first}, filters)

\* offset pagination: skip rows, then at most limit rows
Page(seq, skip, limit) ==
    SubSeq(seq, skip + 1, IF Len(seq) < skip + limit THEN Len(seq) ELSE skip + limit)

\* OpportunityService.get_opportunities(filters): the ids of the page
QueryResult(filters) ==
    Page(SortedIds({ id \in DOMAIN opportunities : Matches(opportunities[id], filters) },
                   filters),
         filters.skip, filters.limit)

DefaultFilters ==
    [status |-> "active", max_risk |-> None, min_margin |-> None,
     sort_by |-> "margin_percentage", sort_order |-> "desc", skip |-> 0, limit |-> 50]

\* The queries asked: every sort over all rows, from the first or the
\* second row on; every status and risk filter under the default sort; the
\* default query with a minimum margin; the default query with an empty
\* max_risk ("?max_risk=") or an empty status.
QueryInputs ==
    { [DefaultFilters EXCEPT !.status = "all", !.sort_by = f, !.sort_order = o, !.skip = k] :
        f \in {"margin_percentage", "confidence_score", "created_at", "expires_at",
               "sealed_price", "risk_level"},
        o \in {"asc", "desc", "down"},
        k \in {0, 1} }
    \cup
    { [DefaultFilters EXCEPT !.status = st, !.max_risk = r] :
        st \in {"active", "cancelled", "all", "deleted"},
        r \in {None, Some("low"), Some("medium"), Some("high"), Some("extreme")} }
    \cup
    { [DefaultFilters EXCEPT !.status = st, !.min_margin = Some(30)] :
        st \in {"active", "all"} }
    \cup
    { [DefaultFilters EXCEPT !.max_risk = Some("")],
      [DefaultFilters EXCEPT !.status = ""] }

\* GET /: the parameters are validated as OpportunityFilters (a ValueError
\* is answered 400), then the service runs the query
get_opportunities ==
    /\ \E filters \in QueryInputs :
          last' = IF ~OpportunityFiltersValid(filters)
                  THEN [op |-> "get_opportunities", filters |-> filters,
                        result |-> "InvalidArgument", items |-> <<>>]
                  ELSE [op |-> "get_opportunities", filters |-> filters,
                        result |-> "ok", items |-> QueryResult(filters)]
    /\ UNCHANGED <<now, price_history, product_singles, opportunities>>

(* The collections queried: up to MaxRows rows, each the analyzer's         *)
(* opportunity for one of three price situations (margin 25, 36 and 70      *)
(* percent: risk high, medium and low), active or cancelled since.          *)
MaxRows == 3

PriceSituations == { <<680, 1000>>, <<1000, 1600>>, <<1000, 2000>> }

StoredRow(prices, status) ==
    LET row == NewRow(NewOpportunity("box", prices[1], prices[2],
                                     MarginPercentage(prices[1], prices[2])))
    IN  IF status = "cancelled" THEN Cancelled(row) ELSE row

StoredRows == { StoredRow(prices, status) :
                  prices \in PriceSituations, status \in {"active", "cancelled"} }

Collections == UNION { [1..n -> StoredRows] : n \in 0..MaxRows }

InitQuery ==
    /\ now = 0
    /\ price_history = {}
    /\ product_singles = {}
    /\ opportunities \in Collections
    /\ last = NoOp

NextQuery == get_opportunities

SpecQuery == InitQuery /\ [][NextQuery]_vars

-----------------------------------------------------------------------------
(* What the price store says about a product, read off the rows alone. *)

HasPrice(product_id) == \E r \in price_history : r.product_id = product_id

IsLatestRow(r) ==
    \A r2 \in price_history :
        r2.product_id = r.product_id => r2.recorded_at <= r.recorded_at

LatestPricesOf(product_id) ==
    { r.price : r \in { x \in price_history : x.product_id = product_id /\ IsLatestRow(x) } }

LeastOf(S) == CHOOSE x \in S : \A y \in S : x <= y

PricedEdges(sealed_product_id) ==
    { e \in product_singles :
        e.sealed_product_id = sealed_product_id /\ HasPrice(e.single_product_id) }

\* the least singles value any choice of latest rows gives
RECURSIVE LeastSinglesValue(_)
LeastSinglesValue(edges) ==
    IF edges = {} THEN 0
    ELSE LET e == CHOOSE x \in edges : TRUE
         IN  e.quantity * LeastOf(LatestPricesOf(e.single_product_id))
             + LeastSinglesValue(edges \ {e})

IsAnalysis == last.op = "analyze"

ReturnedOpportunity == IsAnalysis /\ ~IsNone(last.result)

-----------------------------------------------------------------------------
(* Claims about the analyzer, under SpecAnalyzer *)

\* C1: when the sealed price and the singles value both resolve and the
\* margin ((singles_value * 0.85 - sealed_price) / sealed_price) * 100 is
\* strictly below the minimum threshold, analyze returns no opportunity.
C1_BelowThresholdYieldsNone ==
    ( /\ IsAnalysis
      /\ ~IsNone(last.sealed_price)
      /\ ~IsNone(last.singles_value)
      /\ 85 * Val(last.singles_value) - 100 * Val(last.sealed_price)
            < MIN_MARGIN_THRESHOLD * Val(last.sealed_price) )
    => IsNone(last.result)

\* C1 witness: an analysis found both values, at a margin of -6.5 percent
\* (sealed 10.00, singles 11.00), and returned nothing.
C1_Witness ==
    /\ IsAnalysis
    /\ last.sealed_price = Some(1000)
    /\ last.singles_value = Some(1100)
    /\ IsNone(last.result)

\* C2: when the latest sealed price resolves, at least one component single
\* has a price observation, and the margin over that sealed price and the
\* singles value (each priced single once, at a latest price) is at or
\* above the threshold, equality included, analyze returns a new
\* opportunity with status active and expires_at = analysis time + 24 h.
C2_ProfitableYieldsOpportunity ==
    ( /\ IsAnalysis
      /\ ~IsNone(last.sealed_price)
      /\ PricedEdges(last.sealed_product_id) # {}
      /\ 85 * LeastSinglesValue(PricedEdges(last.sealed_product_id))
            - 100 * Val(last.sealed_price)
            >= MIN_MARGIN_THRESHOLD * Val(last.sealed_price) )
    => ( /\ ~IsNone(last.result)
         /\ Val(last.result).status = "active"
         /\ Val(last.result).expires_at = Some(last.at + 24) )

\* C2 witness: at a margin of exactly 25 percent (sealed 6.80, singles
\* 10.00) an analysis made after the clock had moved returned an opportunity.
C2_Witness ==
    /\ ReturnedOpportunity
    /\ last.at > 0
    /\ last.sealed_price = Some(680)
    /\ LeastSinglesValue(PricedEdges(last.sealed_product_id)) = 1000
    /\ Val(last.result).expires_at = Some(last.at + 24)

\* C3: every opportunity analyze returns carries
\* margin_percentage = ((singles_value * (1 - 0.15) - sealed_price) / sealed_price) * 100
\* over its own sealed_price and gross singles_value, and its sealed_price is
\* the price of a latest observation of the sealed product.
C3_MarginFormula ==
    ReturnedOpportunity =>
        LET o == Val(last.result)
        IN  /\ o.sealed_price > 0
            /\ o.margin_percentage.num * o.sealed_price
                 = (85 * o.singles_value - 100 * o.sealed_price) * o.margin_percentage.den
            /\ o.margin_percentage.den > 0
            /\ o.sealed_price \in LatestPricesOf(last.sealed_product_id)
            /\ o.singles_value = Val(last.singles_value)

\* C3 witness: sealed 10.00 and singles 15.00 gave an opportunity at 27.5 percent.
C3_Witness ==
    /\ ReturnedOpportunity
    /\ Val(last.result).sealed_price = 1000
    /\ Val(last.result).singles_value = 1500
    /\ 10 * Val(last.result).margin_percentage.num
         = 275 * Val(last.result).margin_percentage.den

\* the last operation was a call of the valuator / of the resolver
IsValuation == last.op = "calculate_singles_value"
IsResolution == last.op = "get_latest_price"

\* the composition edges of a sealed product
EdgesOf(sealed_product_id) ==
    { e \in product_singles : e.sealed_product_id = sealed_product_id }

\* no priced component single has two observations at its latest recorded_at
OneLatestRowEach(sealed_product_id) ==
    \A e \in PricedEdges(sealed_product_id) :
        Cardinality({ r \in price_history :
                        r.product_id = e.single_product_id /\ IsLatestRow(r) }) = 1

\* C14: the valuator reports unavailable exactly when no component single
\* of the sealed product has a price observation (a product without edges
\* included); otherwise it returns a sum in which every priced single
\* counts and no unpriced one does: quantity * latest price over the
\* priced singles, when each of them has one latest observation.
C14_PartialSinglesValue ==
    IsValuation =>
        LET priced == PricedEdges(last.sealed_product_id)
        IN  /\ IsNone(last.result) <=> priced = {}
            /\ ~IsNone(last.result) =>
                  /\ Val(last.result) >= LeastSinglesValue(priced)
                  /\ OneLatestRowEach(last.sealed_product_id) =>
                        Val(last.result) = LeastSinglesValue(priced)

\* C14 witness: of two component singles one had a price (5.00, twice in
\* the box) and the other none, and the valuator returned 10.00.
C14_Witness ==
    /\ IsValuation
    /\ Cardinality(EdgesOf(last.sealed_product_id)) = 2
    /\ Cardinality(PricedEdges(last.sealed_product_id)) = 1
    /\ last.result = Some(1000)

\* C15: the resolver returns none for a product without observations and
\* the price of an observation with the greatest recorded_at otherwise,
\* and two reads over the same rows return the same price.
C15_ResolverDeterministic ==
    IsResolution =>
        /\ ~HasPrice(last.product_id) => IsNone(last.first)
        /\ HasPrice(last.product_id) =>
              /\ ~IsNone(last.first)
              /\ Val(last.first) \in LatestPricesOf(last.product_id)
        /\ last.first = last.second

\* What does hold of the resolver: none without observations, else the
\* price of an observation with the greatest recorded_at, on every read.
C15_ResolverLatest ==
    IsResolution =>
        \A read \in {last.first, last.second} :
            /\ ~HasPrice(last.product_id) => IsNone(read)
            /\ HasPrice(last.product_id) =>
                  (~IsNone(read) /\ Val(read) \in LatestPricesOf(last.product_id))

-----------------------------------------------------------------------------
(* Claims about the lifecycle, under Spec *)

Terminal == {"expired", "executed", "cancelled"}

IsExecute == last.op \in {"execute", "execute_opportunity"}
IsUpdate == last.op = "update_opportunity"
IsCancel == last.op = "delete_opportunity"

\* the last operation was one on a row that was there
OnRow == (IsExecute \/ IsUpdate \/ IsCancel) /\ ~IsNone(last.before)
Before == Val(last.before)
After == opportunities[last.id]

InRange(quantity) == quantity >= 1 /\ quantity <= 100

\* what a request may carry besides the quantity
NotesAdmitted ==
    last.op = "execute_opportunity" =>
        (IsNone(last.notes) \/ NotesLength(Val(last.notes)) <= 500)

\* C4: execute(quantity, notes) with quantity in [1,100] on a row whose
\* status is active succeeds and leaves it executed, with
\* execution_quantity and execution_notes as given and executed_at set
\* (at the request surface, for notes of at most 500 characters).
C4_ExecuteActive ==
    ( /\ IsExecute /\ OnRow
      /\ Before.status = "active"
      /\ InRange(last.quantity)
      /\ NotesAdmitted )
    => ( /\ last.result = "ok"
         /\ After.status = "executed"
         /\ After.execution_quantity = last.quantity
         /\ After.execution_notes = last.notes
         /\ ~IsNone(After.executed_at) )

\* C4 witness: a request executed an active row with quantity 100.
C4_Witness ==
    /\ last.op = "execute_opportunity" /\ OnRow
    /\ Before.status = "active"
    /\ last.quantity = 100
    /\ ~IsNone(last.notes)
    /\ After.status = "executed"

\* C5: execute on a row whose status is expired, executed or cancelled
\* fails and leaves the row as it was; with a quantity in [1,100] the
\* failure is InvalidState.
C5_ExecuteTerminal ==
    ( /\ IsExecute /\ OnRow
      /\ Before.status \in Terminal )
    => ( /\ last.result \in {"InvalidState", "InvalidArgument"}
         /\ (InRange(last.quantity) /\ NotesAdmitted => last.result = "InvalidState")
         /\ After = Before )

\* C5 witness: a row that an update had set to expired, with execution
\* data from before, refused an execute with quantity 1.
C5_Witness ==
    /\ IsExecute /\ OnRow
    /\ Before.status = "expired"
    /\ Before.execution_quantity = 100
    /\ last.quantity = 1
    /\ last.result = "InvalidState"

\* C6: execute with a quantity outside [1,100] fails and leaves the row as
\* it was, also when the operation is called without the request schema
\* in front of it; on an active row the failure is InvalidArgument.
C6_ExecuteOutOfRange ==
    ( /\ IsExecute /\ OnRow
      /\ ~InRange(last.quantity) )
    => ( /\ last.result \in {"InvalidState", "InvalidArgument"}
         /\ (Before.status = "active" => last.result = "InvalidArgument")
         /\ After = Before )

\* C6 witness: the service operation, called on its own with quantity 101
\* on an active row, answered InvalidArgument.
C6_Witness ==
    /\ last.op = "execute" /\ OnRow
    /\ Before.status = "active"
    /\ last.quantity = 101
    /\ last.result = "InvalidArgument"

\* C7: cancel on a row in any status leaves it cancelled and in the table,
\* with nothing but status and updated_at changed; on a row that is
\* cancelled already it changes nothing at all.
C7_CancelIdempotent ==
    (IsCancel /\ OnRow) =>
        ( /\ last.result = "ok"
          /\ Exists(last.id)
          /\ After.status = "cancelled"
          /\ [After EXCEPT !.updated_at = 0] =
                [Before EXCEPT !.status = "cancelled", !.updated_at = 0]
          /\ (Before.status = "cancelled" => After = Before) )

\* C7 witness: a second cancel, later than the row's last change.
C7_Witness ==
    /\ IsCancel /\ OnRow
    /\ Before.status = "cancelled"
    /\ Before.updated_at < now

\* C7 witness of the other statuses: an executed row was cancelled.
C7_WitnessExecuted ==
    /\ IsCancel /\ OnRow
    /\ Before.status = "executed"
    /\ After.status = "cancelled"

\* the rows the last operation found in a terminal status are not active now
NoneResurrected ==
    /\ OnRow => (Before.status \in Terminal => After.status # "active")
    /\ last.op = "cleanup_expired_opportunities" =>
          \A id \in DOMAIN opportunities :
              last.before[id].status \in Terminal => opportunities[id].status # "active"

\* a row that create has just added is active
EntersActive ==
    (last.op = "create" /\ ~IsNone(last.result)) =>
        opportunities[Len(opportunities)].status = "active"

\* C8 as claimed: every row enters active, and no operation (execute,
\* expire, update, cancel) makes a row active that was expired, executed
\* or cancelled.
C8_TerminalForEver == EntersActive /\ NoneResurrected

\* C8 as amended: every row enters active, and a row that was expired,
\* executed or cancelled is active after an operation only when the
\* operation was an update with status = active.
C8_TerminalButForUpdate ==
    /\ EntersActive
    /\ last.op = "cleanup_expired_opportunities" => NoneResurrected
    /\ (OnRow /\ Before.status \in Terminal /\ After.status = "active")
          => (IsUpdate /\ last.status = Some("active"))

\* C8 witness: a cancel met a row that had become expired 24 hours after
\* it was created, and left it cancelled.
C8_Witness ==
    /\ IsCancel /\ OnRow
    /\ Before.status = "expired"
    /\ Before.created_at = Before.updated_at - 24

\* the other fields of an update request are ones the schema admits
UpdateRestAdmitted ==
    /\ (IsNone(last.execution_quantity) \/ Val(last.execution_quantity) >= 0)
    /\ (IsNone(last.execution_notes) \/ NotesLength(Val(last.execution_notes)) <= 500)

\* C9: for all statuses s and t among active, expired, executed, cancelled,
\* update(status = t) on a row whose status is s succeeds and leaves the
\* row with status t.
C9_UpdateAnyTransition ==
    ( /\ IsUpdate /\ OnRow
      /\ Before.status \in Statuses
      /\ ~IsNone(last.status)
      /\ Val(last.status) \in Statuses
      /\ UpdateRestAdmitted )
    => ( /\ last.result = "ok"
         /\ After.status = Val(last.status) )

\* C9 witness: an update took a cancelled row back to active.
C9_Witness ==
    /\ IsUpdate /\ OnRow
    /\ Before.status = "cancelled"
    /\ last.status = Some("active")
    /\ After.status = "active"

\* C10: an update that supplies a status other than active, expired,
\* executed, cancelled is rejected with InvalidArgument and leaves the row
\* as it was, and after an accepted update the stored status is one of
\* the four.
C10_InvalidStatusRejected ==
    (IsUpdate /\ OnRow) =>
        /\ (~IsNone(last.status) /\ Val(last.status) \notin Statuses)
              => (last.result = "InvalidArgument" /\ After = Before)
        /\ (last.result = "ok" /\ Before.status \in Statuses)
              => After.status \in Statuses

\* What does hold: a supplied status that is neither one of the four nor
\* the empty string is rejected and the row is left as it was.
C10_NonEmptyInvalidStatusRejected ==
    ( /\ IsUpdate /\ OnRow
      /\ ~IsNone(last.status)
      /\ Val(last.status) \notin Statuses \cup {""} )
    => (last.result = "InvalidArgument" /\ After = Before)

-----------------------------------------------------------------------------
(* Expiration, derived fields, expires_at *)

IsRead == last.op = "is_active"
IsSweep == last.op = "cleanup_expired_opportunities"

\* the row as the sweep leaves it when it is active and due, else untouched
SweptFrom(row) ==
    IF row.status = "active" /\ ~IsNone(row.expires_at) /\ now >= Val(row.expires_at)
    THEN [row EXCEPT !.status = "expired", !.updated_at = now]
    ELSE row

\* C11: at any time now >= expires_at a row whose stored status is active is
\* reported as not active by a read, whether or not a sweep has run since,
\* and a sweep moves exactly the active rows with now >= expires_at to
\* expired and leaves every other row as it was.
C11_ReadAgreesWithSweep ==
    /\ (IsRead /\ IsDue(opportunities[last.id])) => last.result = FALSE
    /\ IsSweep =>
          \A id \in DOMAIN opportunities :
              opportunities[id] = SweptFrom(last.before[id])

\* the fields the analyzer derives
DerivedFields ==
    {"sealed_price", "singles_value", "margin_percentage", "confidence_score",
     "risk_level"}
Derived(row) == [f \in DerivedFields |-> row[f]]

\* the columns on which two rows differ
ChangedColumns(old, new) == { f \in DOMAIN old : old[f] # new[f] }

\* C17: execute, update, cancel and expire leave sealed_price,
\* singles_value, margin_percentage, confidence_score and risk_level of a
\* row as they were, and an update changes nothing but status,
\* execution_quantity, execution_notes and updated_at, whatever other keys
\* its body carries.
C17_DerivedFieldsFrame ==
    /\ OnRow => Derived(After) = Derived(Before)
    /\ IsSweep =>
          \A id \in DOMAIN opportunities :
              Derived(opportunities[id]) = Derived(last.before[id])
    /\ (IsUpdate /\ OnRow) =>
          ChangedColumns(Before, After) \subseteq
              {"status", "execution_quantity", "execution_notes", "updated_at"}

\* C17 witness: an update whose body carried margin_percentage = 99 beside
\* a new status was accepted, and the row kept its margin.
C17_Witness ==
    /\ IsUpdate /\ OnRow
    /\ last.extra # <<>>
    /\ last.result = "ok"
    /\ After.status # Before.status
    /\ After.margin_percentage = Before.margin_percentage
    /\ After.margin_percentage # Val(last.extra.margin_percentage)

\* C18: no step lowers or clears the expires_at of a row that has one.
C18_ExpiresAtNeverDecreases ==
    [][ \A id \in DOMAIN opportunities :
           ~IsNone(opportunities[id].expires_at) =>
              /\ id \in DOMAIN opportunities'
              /\ ~IsNone(opportunities'[id].expires_at)
              /\ Val(opportunities'[id].expires_at)
                    >= Val(opportunities[id].expires_at) ]_vars

\* C18 witness: a row created after the clock had moved went through an
\* accepted update whose body carried expires_at = 0, and kept its own.
C18_Witness ==
    /\ IsUpdate /\ OnRow
    /\ last.extra # <<>>
    /\ last.result = "ok"
    /\ After # Before
    /\ Val(Before.expires_at) > 24
    /\ After.expires_at = Before.expires_at

-----------------------------------------------------------------------------
(* Claims about the classifier and the scorer, under SpecScoring *)

IsAssessment == last.op = "assess_risk_level"
IsScoring == last.op = "calculate_confidence"

\* C12: the risk level of (margin_percentage, confidence_score) is low
\* exactly when confidence >= 0.8 and margin >= 50, else medium exactly when
\* confidence >= 0.6 and margin >= 30, else high; the bounds are inclusive
\* and every pair gets one of the three levels.
C12_RiskClassifier ==
    IsAssessment =>
        LET m == last.margin_percentage
            c == last.confidence_score
            low == c >= 80 /\ m.num >= 50 * m.den
            medium == ~low /\ c >= 60 /\ m.num >= 30 * m.den
        IN  /\ last.result \in {"low", "medium", "high"}
            /\ last.result = "low" <=> low
            /\ last.result = "medium" <=> medium
            /\ last.result = "high" <=> (~low /\ ~medium)

\* C12 witness: margin 50 with confidence 0.8 was classified low.
C12_Witness ==
    /\ IsAssessment
    /\ last.margin_percentage = Percent(5000)
    /\ last.confidence_score = 80
    /\ last.result = "low"

\* the margin_size factor of the table, in hundredths
MarginSizeFactor(m) ==
    IF m.num > 200 * m.den THEN 50
    ELSE IF m.num > 100 * m.den THEN 80
    ELSE IF m.num > 50 * m.den THEN 100
    ELSE 70

\* the weighted sum of the table, in thousandths
WeightedSum ==
    3 * (IF last.price_volatility >= 50 THEN 0 ELSE 100 - 2 * last.price_volatility)
    + 2 * (IF last.seller_count <= 5 THEN 90
           ELSE IF last.seller_count <= 10 THEN 70 ELSE 30)
    + 2 * last.volume_consistency
    + 3 * MarginSizeFactor(last.margin_percentage)

-----------------------------------------------------------------------------
(* Claims about the query, under SpecQuery *)

IsQuery == last.op = "get_opportunities"

\* the query asked for a sort the schema allows, with filters it allows
SortAllowed ==
    /\ last.filters.sort_by \in {"margin_percentage", "confidence_score",
                                  "created_at", "expires_at", "sealed_price"}
    /\ last.filters.sort_order \in {"asc", "desc"}
FiltersAllowed ==
    /\ last.filters.status \in Statuses \cup {"all"}
    /\ IsNone(last.filters.max_risk) \/ Val(last.filters.max_risk) \in RiskLevels

\* the sort field of a row as a pair to compare by cross-multiplication
SortKey(row, f) ==
    IF f = "margin_percentage" THEN row.margin_percentage
    ELSE IF f = "expires_at" THEN [num |-> Val(row.expires_at), den |-> 1]
    ELSE [num |-> row[f], den |-> 1]

\* C19: a query with an allowed sort field f and sort order is answered
\* with a list in which every row is followed by one that is not greater
\* (desc) or not smaller (asc) on f, and by one of greater id where the two
\* are equal on f.
C19_SortedWithIdTieBreak ==
    (IsQuery /\ SortAllowed /\ FiltersAllowed) =>
        /\ last.result = "ok"
        /\ \A k \in 1..(Len(last.items) - 1) :
              LET a == SortKey(opportunities[last.items[k]], last.filters.sort_by)
                  b == SortKey(opportunities[last.items[k + 1]], last.filters.sort_by)
              IN  /\ last.filters.sort_order = "desc" => a.num * b.den >= b.num * a.den
                  /\ last.filters.sort_order = "asc" => a.num * b.den <= b.num * a.den
                  /\ a.num * b.den = b.num * a.den => last.items[k] < last.items[k + 1]

\* C19 witness: status=active, sort_by=margin_percentage, sort_order=desc
\* over three active rows, two of them at the same margin, returned the
\* greater margin first and the equal ones by id.
C19_Witness ==
    /\ IsQuery
    /\ last.filters = DefaultFilters
    /\ last.items = <<2, 1, 3>>
    /\ opportunities[1].margin_percentage = opportunities[3].margin_percentage
    /\ opportunities[2].margin_percentage # opportunities[1].margin_percentage

\* the rows a query's filters admit
Admitted ==
    { id \in DOMAIN opportunities :
        /\ last.filters.status # "all" => opportunities[id].status = last.filters.status
        /\ last.filters.max_risk = Some("low") => opportunities[id].risk_level = "low"
        /\ last.filters.max_risk = Some("medium") =>
               opportunities[id].risk_level \in {"low", "medium"}
        /\ ~IsNone(last.filters.min_margin) =>
               opportunities[id].margin_percentage.num
                  >= Val(last.filters.min_margin) * opportunities[id].margin_percentage.den }

\* the ids of a result list
Items == { last.items[k] : k \in 1..Len(last.items) }

\* C20: a query with status s or all and max_risk r or none is answered
\* with rows that pass every supplied filter, and with all of them when
\* nothing is skipped: only status s unless status = all, only risk levels
\* up to r in the order low < medium < high.
C20_FiltersApplied ==
    (IsQuery /\ SortAllowed /\ FiltersAllowed) =>
        /\ last.result = "ok"
        /\ Items \subseteq Admitted
        /\ (last.filters.skip = 0 /\ last.filters.limit >= Cardinality(Admitted))
              => Items = Admitted

\* C20 witness: status=all with max_risk=medium over a low active row, a
\* medium cancelled row and a high active row returned the first two.
C20_Witness ==
    /\ IsQuery
    /\ last.filters.status = "all"
    /\ last.filters.max_risk = Some("medium")
    /\ Len(opportunities) = 3
    /\ opportunities[1].risk_level = "low" /\ opportunities[1].status = "active"
    /\ opportunities[2].risk_level = "medium" /\ opportunities[2].status = "cancelled"
    /\ opportunities[3].risk_level = "high"
    /\ Items = {1, 2}

-----------------------------------------------------------------------------
(* Invalid queries *)

InvalidQuery ==
    \/ ~IsNone(last.filters.max_risk) /\ Val(last.filters.max_risk) \notin RiskLevels
    \/ last.filters.sort_by \notin {"margin_percentage", "confidence_score",
                                    "created_at", "expires_at", "sealed_price"}
    \/ last.filters.sort_order \notin {"asc", "desc"}
    \/ last.filters.status \notin Statuses \cup {"all"}

\* C21: a query whose max_risk is supplied and is not low, medium or high,
\* whose sort_by is not one of the five sort fields, whose sort_order is
\* not asc or desc, or whose status is not one of the four statuses or
\* all, is answered InvalidArgument and returns no list.
C21_InvalidQueryRejected ==
    (IsQuery /\ InvalidQuery)
    => (last.result = "InvalidArgument" /\ last.items = <<>>)

\* What does hold: the same, for every invalid query but the one whose
\* max_risk is the empty string.
C21_NonEmptyInvalidQueryRejected ==
    (IsQuery /\ InvalidQuery /\ last.filters.max_risk # Some(""))
    => (last.result = "InvalidArgument" /\ last.items = <<>>)

-----------------------------------------------------------------------------
(* Statistics: GET /stats/summary and get_opportunity_stats of              *)
(* OpportunityService.  Potential profit is in hundredths of a cent.        *)

\* the profit on the gross singles value
potential_profit_gross(row) == row.singles_value * 100 - row.sealed_price * 100

\* ArbitrageOpportunity.potential_profit:
\* float(singles_value) * 0.85 - float(sealed_price)
potential_profit(row) == row.singles_value * 85 - row.sealed_price * 100

\* ArbitrageOpportunity.is_high_confidence: float(confidence_score) >= 0.8
is_high_confidence(row) == row.confidence_score >= 80

\* Product.category of the sealed products
CategoryOf(product_id) == IF product_id = "box" THEN "pokemon" ELSE "mtg"

\* the row was created in the trailing window and is of the category asked
InStats(row, category, days) ==
    /\ row.created_at >= now - 24 * days
    /\ IsNone(category) \/ CategoryOf(row.sealed_product_id) = Val(category)

RECURSIVE TotalPotentialProfit(_)
TotalPotentialProfit(ids) ==
    IF ids = {} THEN 0
    ELSE LET id == CHOOSE i \in ids : TRUE
         IN  potential_profit(opportunities[id]) + TotalPotentialProfit(ids \ {id})

\* OpportunityService.get_opportunity_stats(category, days)
OpportunityStats(category, days) ==
    LET ids == { id \in DOMAIN opportunities : InStats(opportunities[id], category, days) }
        Count(status) == Cardinality({ id \in ids : opportunities[id].status = status })
    IN  [ total_opportunities    |-> Cardinality(ids),
          active_opportunities   |-> Count("active"),
          executed_opportunities |-> Count("executed"),
          expired_opportunities  |-> Count("expired"),
          total_potential_profit |-> TotalPotentialProfit(ids),
          high_confidence_count  |->
              Cardinality({ id \in ids : is_high_confidence(opportunities[id]) }),
          low_risk_count         |->
              Cardinality({ id \in ids : opportunities[id].risk_level = "low" }) ]

StatsDays == {1, 30}
StatsCategories == {None, Some("pokemon"), Some("mtg")}

\* GET /stats/summary
get_opportunity_stats ==
    /\ \E category \in StatsCategories, days \in StatsDays :
          last' = [op |-> "get_opportunity_stats", category |-> category, days |-> days,
                   result |-> OpportunityStats(category, days)]
    /\ UNCHANGED <<now, price_history, product_singles, opportunities>>

(* The collections summarised, at hour 72: up to MaxRows rows, each the     *)
(* analyzer's opportunity for a pokemon box (margin 25 or 70 percent) or    *)
(* an mtg tin (margin 25 percent), created 12 hours ago in any of the      *)
(* four statuses, or 72 hours ago and still active.                        *)
StatsClock == 72
StatsSituations ==
    { <<"box", 680, 1000>>, <<"box", 1000, 2000>>, <<"tin", 680, 1000>> }

StatsRow(situation, status, created_at) ==
    LET row == NewRow(NewOpportunity(situation[1], situation[2], situation[3],
                                     MarginPercentage(situation[2], situation[3])))
        stored == [row EXCEPT !.created_at = created_at,
                              !.updated_at = created_at,
                              !.expires_at = Some(created_at + ExpiryHours),
                              !.status = status]
    IN  IF status = "executed"
        THEN [stored EXCEPT !.execution_quantity = MinQuantity,
                            !.executed_at = Some(created_at)]
        ELSE stored

\* Rows of every status created inside the shorter window, active rows
\* created before it.
StatsRows ==
    { StatsRow(situation, status, 60) :
        situation \in StatsSituations, status \in Statuses }
    \cup { StatsRow(situation, "active", 0) : situation \in StatsSituations }

InitStats ==
    /\ now = StatsClock
    /\ price_history = {}
    /\ product_singles = {}
    /\ opportunities \in UNION { [1..n -> StatsRows] : n \in 0..MaxRows }
    /\ last = NoOp

NextStats == get_opportunity_stats

SpecStats == InitStats /\ [][NextStats]_vars

-----------------------------------------------------------------------------
(* Claims about the statistics, under SpecStats *)

IsStats == last.op = "get_opportunity_stats"

\* the ids of the rows created in the window asked, of the category asked
Windowed ==
    { id \in DOMAIN opportunities :
        /\ opportunities[id].created_at >= now - 24 * last.days
        /\ \/ IsNone(last.category)
           \/ /\ Val(last.category) = "pokemon"
              /\ opportunities[id].sealed_product_id = "box"
           \/ /\ Val(last.category) = "mtg"
              /\ opportunities[id].sealed_product_id = "tin" }

WindowedWith(status) == { id \in Windowed : opportunities[id].status = status }

RECURSIVE ProfitOver(_)
ProfitOver(ids) ==
    IF ids = {} THEN 0
    ELSE LET id == CHOOSE i \in ids : TRUE
         IN  opportunities[id].singles_value * 85 - opportunities[id].sealed_price * 100
             + ProfitOver(ids \ {id})

\* C22: the statistics count the opportunities created in the trailing
\* N-day window (of the category, when one is given): the total, the
\* active, executed and expired ones (the total is at least their sum, the
\* remainder being the cancelled ones), the total potential profit as the
\* sum of singles_value * 0.85 - sealed_price, the high-confidence count as
\* the number with confidence >= 0.8, the low-risk count as the number
\* with risk level low.
C22_Statistics ==
    IsStats =>
        /\ last.result.total_opportunities = Cardinality(Windowed)
        /\ last.result.active_opportunities = Cardinality(WindowedWith("active"))
        /\ last.result.executed_opportunities = Cardinality(WindowedWith("executed"))
        /\ last.result.expired_opportunities = Cardinality(WindowedWith("expired"))
        /\ last.result.total_opportunities
              = last.result.active_opportunities + last.result.executed_opportunities
                + last.result.expired_opportunities
                + Cardinality(WindowedWith("cancelled"))
        /\ last.result.total_potential_profit = ProfitOver(Windowed)
        /\ last.result.high_confidence_count
              = Cardinality({ id \in Windowed : opportunities[id].confidence_score >= 80 })
        /\ last.result.low_risk_count
              = Cardinality({ id \in Windowed : opportunities[id].risk_level = "low" })

\* statistics of the last day in pokemon over three rows: one left out by
\* the window, one by the category, and one counted, cancelled, with a
\* confidence of exactly 0.8
C22_Witness ==
    /\ IsStats
    /\ last.days = 1
    /\ last.category = Some("pokemon")
    /\ Len(opportunities) = 3
    /\ Cardinality(Windowed) = 1
    /\ \E id \in DOMAIN opportunities :
          /\ opportunities[id].created_at = 0
          /\ opportunities[id].sealed_product_id = "box"
    /\ \E id \in DOMAIN opportunities :
          /\ opportunities[id].created_at = 60
          /\ opportunities[id].sealed_product_id = "tin"
    /\ \E id \in Windowed :
          /\ opportunities[id].status = "cancelled"
          /\ opportunities[id].confidence_score = 80
    /\ last.result.total_opportunities = 1
    /\ last.result.high_confidence_count = 1
    /\ last.result.total_potential_profit = 70000

-----------------------------------------------------------------------------
(* Errors and negative results of the analyzer, under SpecAnalyzer *)

\* The analysis in which a lookup raised: without a usable session
\* _get_latest_price raises inside its try, logs "Error getting latest
\* price" and answers None.
AnalysisFailed == IsAnalysis /\ ~last.has_db

\* C24: the outcome of analyze_sealed_product tells a valid negative result
\* (no sealed price, no singles value, margin below the threshold) from an
\* error.  A negative result is reported as None, so an analysis that hit
\* an error does not return None.
C24_ErrorDistinctFromNegative ==
    AnalysisFailed => ~IsNone(last.result)

-----------------------------------------------------------------------------
(* Batch analysis: the task analyze_all_products over the sealed products  *)

BatchProducts == <<"box", "tin">>

\* the composition of the second sealed product: one single three times
TinEdge == [sealed_product_id |-> "tin", single_product_id |-> "s1", quantity |-> 3]

\* The runs of the batch, one per product.  A product in raising is one
\* whose lookups raise (store unreachable, no usable session): the except
\* clauses of the analyzer answer None for it.
BatchRuns(raising) ==
    { runs \in [1..Len(BatchProducts) ->
                  UNION { Analyses(BatchProducts[k], b) :
                            k \in 1..Len(BatchProducts), b \in BOOLEAN }] :
        \A k \in 1..Len(BatchProducts) :
            runs[k] \in Analyses(BatchProducts[k], BatchProducts[k] \notin raising) }

Produced(runs) ==
    SelectSeq([k \in 1..Len(BatchProducts) |-> runs[k].result], LAMBDA r : ~IsNone(r))

\* analyze_all_products(): every product is analysed in turn; a returned
\* opportunity is stored and counted analyzed, None is counted skipped, an
\* exception out of the analysis is counted failed and the batch goes on.
\* analyze_sealed_product catches every exception itself and returns None,
\* so no exception comes out of it.
analyze_all_products ==
    /\ Len(opportunities) + Len(BatchProducts) <= MaxRows
    /\ \E raising \in SUBSET { BatchProducts[k] : k \in 1..Len(BatchProducts) } :
       \E runs \in BatchRuns(raising) :
          /\ opportunities' =
                opportunities \o [k \in 1..Len(Produced(runs)) |->
                                    NewRow(Val(Produced(runs)[k]))]
          /\ last' = [op |-> "analyze_all_products", raising |-> raising,
                      results  |-> [k \in 1..Len(BatchProducts) |-> runs[k].result],
                      analyzed |-> Len(Produced(runs)),
                      skipped  |-> Len(BatchProducts) - Len(Produced(runs)),
                      failed   |-> 0]
    /\ UNCHANGED <<now, price_history, product_singles>>

\* The price stores the batch runs over: any of five observations, two of
\* them of one single at the same instant.
BatchObservations ==
    { Observation("box", 1000, 0), Observation("tin", 1000, 0),
      Observation("s1", 500, 0), Observation("s1", 550, 0), Observation("s2", 500, 0) }

InitBatch ==
    /\ now = 0
    /\ price_history \in SUBSET BatchObservations
    /\ product_singles = {Edge("s1", 2), Edge("s2", 1), TinEdge}
    /\ opportunities = <<>>
    /\ last = NoOp

NextBatch == analyze_all_products

SpecBatch == InitBatch /\ [][NextBatch]_vars

IsBatch == last.op = "analyze_all_products"

\* C23: a failure in analysing one product does not abort the batch: every
\* product has its outcome, the counts analyzed, skipped and failed sum to
\* the number of products, and a product whose analysis hit a failure is
\* counted failed, not skipped.
C23_BatchIsolatesFailures ==
    IsBatch =>
        /\ Len(last.results) = Len(BatchProducts)
        /\ last.analyzed + last.skipped + last.failed = Len(BatchProducts)
        /\ last.failed = Cardinality(last.raising)

\* What does hold: every product has its outcome and the counts sum to the
\* number of products, the products that produced an opportunity counted
\* analyzed.
C23_BatchCountsSum ==
    IsBatch =>
        /\ Len(last.results) = Len(BatchProducts)
        /\ last.analyzed + last.skipped + last.failed = Len(BatchProducts)
        /\ last.analyzed
              = Cardinality({ k \in 1..Len(last.results) : ~IsNone(last.results[k]) })

-----------------------------------------------------------------------------
(* Tied observations, seller count, sessions: under SpecAnalyzer *)

\* the sums that count, for every priced edge, quantity * the price of one
\* of the single's latest observations
RECURSIVE OneObservationEachValues(_)
OneObservationEachValues(edges) ==
    IF edges = {} THEN {0}
    ELSE LET e == CHOOSE x \in edges : TRUE
         IN  { e.quantity * price + rest :
                 price \in LatestPricesOf(e.single_product_id),
                 rest \in OneObservationEachValues(edges \ {e}) }

\* C25: in the singles value every priced edge contributes quantity * price
\* of exactly one observation, the single's latest, also when two or more
\* observations of the single share the greatest recorded_at: no single is
\* counted more than once.
C25_OneObservationPerEdge ==
    (IsValuation /\ ~IsNone(last.result)) =>
        Val(last.result) \in OneObservationEachValues(PricedEdges(last.sealed_product_id))

\* the seller counts of the sealed product's latest observations
LatestSellerCounts(product_id) ==
    { r.seller_count : r \in { x \in price_history :
                                 x.product_id = product_id /\ IsLatestRow(x) } }

\* C26: the seller_count stored on a returned opportunity is the
\* seller_count of the latest sealed price observation when that
\* observation has one, and absent otherwise.
C26_SellerCountOfLatestObservation ==
    ReturnedOpportunity =>
        Val(last.result).seller_count \in LatestSellerCounts(last.sealed_product_id)

\* C28: an analyzer built without a session returns what an analyzer with
\* an injected session returns over the same store; in particular it
\* produces an opportunity whenever the injected one does.
C28_SessionMakesNoDifference ==
    (IsAnalysis /\ ~last.has_db) =>
        last.result \in { run.result : run \in Analyses(last.sealed_product_id, TRUE) }

-----------------------------------------------------------------------------
(* Statelessness of the analyzer, under SpecBatch *)

\* C27: the analysis does not depend on the opportunities stored.  Two
\* batches in a row run over the same prices, compositions and clock, the
\* second over the opportunities the first one added: with the same
\* products failing, every product gets the same outcome in both, with the
\* same sealed price, singles value, margin, confidence and risk level.
C27_AnalysisStateless ==
    [][ (IsBatch /\ IsBatch' /\ last'.raising = last.raising)
            => last'.results = last.results ]_vars

\* a batch that ran over a stored opportunity and produced one itself
C27_Witness ==
    /\ IsBatch
    /\ Len(opportunities) = 2
    /\ last.analyzed = 1
    /\ \E k \in 1..Len(last.results) :
          /\ ~IsNone(last.results[k])
          /\ Val(last.results[k]).sealed_product_id = opportunities[1].sealed_product_id

-----------------------------------------------------------------------------
(* Executed rows, under Spec *)

\* an executed row has its execution time and a quantity in [1,100]
ExecutedWellFormed(row) ==
    row.status = "executed" =>
        (~IsNone(row.executed_at) /\ InRange(row.execution_quantity))

\* C29: whenever an opportunity's status is executed, its executed_at is
\* set and its execution_quantity is in [1,100], after every sequence of
\* execute, update, cancel and expire operations.
C29_ExecutedWellFormed ==
    \A id \in DOMAIN opportunities : ExecutedWellFormed(opportunities[id])

\* What does hold: only an update makes a row executed without executed_at
\* or with a quantity outside [1,100]; a new row, an execute, a cancel and
\* an expiration sweep never do.
C29_ExecutedWellFormedButForUpdate ==
    [][ \A id \in DOMAIN opportunities' :
          ( /\ ~ExecutedWellFormed(opportunities'[id])
            /\ id \in DOMAIN opportunities => ExecutedWellFormed(opportunities[id]) )
          => last'.op = "update_opportunity" ]_vars

\* C29 witness: an execute of quantity 1 on an active row left it executed,
\* stamped with the time of the call.
C29_Witness ==
    /\ last.op = "execute" /\ OnRow
    /\ Before.status = "active"
    /\ last.quantity = 1
    /\ After.status = "executed"
    /\ After.execution_quantity = 1
    /\ After.executed_at = Some(now)

-----------------------------------------------------------------------------
(* BaseScraper.make_request (scrapers/base_scraper.py) *)

max_retries == 3

\* What one attempt can meet: a response of status 200, 429 or another
\* status, asyncio.TimeoutError, or another exception.
AttemptOutcomes == {"200", "429", "500", "timeout", "error"}

\* the attempt that returns, 0 when none meets a 200
FirstOk(outcomes) ==
    IF \E k \in 1..max_retries : outcomes[k] = "200"
    THEN CHOOSE k \in 1..max_retries :
            /\ outcomes[k] = "200"
            /\ \A j \in 1..(k - 1) : outcomes[j] # "200"
    ELSE 0

\* make_request with self.session set or not, over what the attempts meet:
\* "session = self.session or aiohttp.ClientSession()", then up to
\* max_retries attempts.  A 200 returns the response from inside the loop;
\* after the last failed attempt the session is closed when the call
\* created it, and None is returned.
MakeRequest(injected, outcomes) ==
    LET ok == FirstOk(outcomes)
        attempts == IF ok > 0 THEN ok ELSE max_retries
    IN  [ injected        |-> injected,
          seen            |-> SubSeq(outcomes, 1, attempts),
          result          |-> IF ok > 0 THEN Some("response") ELSE None,
          session_created |-> ~injected,
          session_closed  |-> ok = 0 /\ ~injected ]

make_request ==
    /\ \E injected \in BOOLEAN :
       \E outcomes \in [1..max_retries -> AttemptOutcomes] :
          last' = [op |-> "make_request"] @@ MakeRequest(injected, outcomes)
    /\ UNCHANGED <<now, price_history, product_singles, opportunities>>

InitScraper ==
    /\ now = 0
    /\ price_history = {}
    /\ product_singles = {}
    /\ opportunities = <<>>
    /\ last = NoOp

NextScraper == make_request

SpecScraper == InitScraper /\ [][NextScraper]_vars

IsRequest == last.op = "make_request"

\* C30: when make_request is called without an injected session, the
\* session it creates is closed by the time it returns, on every exit
\* path: a 200 on any of the attempts, or None after all attempts failed.
C30_CreatedSessionClosed ==
    (IsRequest /\ ~last.injected) => (last.session_created /\ last.session_closed)

\* What does hold: the session the call created is closed exactly when the
\* call returns None, and an injected session is never closed by the call.
C30_CreatedSessionClosedOnFailure ==
    IsRequest =>
        /\ ~last.injected => (last.session_closed <=> IsNone(last.result))
        /\ last.injected => ~last.session_closed

=============================================================================
